---------------------------- MODULE Spec2Model ----------------------------
(***************************************************************************)
(* OCRSenseiWeb: tiling geometry (server/image-splitter.py) and the        *)
(* chunked dual-pass OCR pipeline (server/ocr-service.py).                 *)
(*                                                                         *)
(* Two state machines share this module.                                   *)
(*   SplitSpec : one call of split_image(image_path, config) on an image   *)
(*               size and a configuration drawn from bounded sets.         *)
(*   Spec      : one run of process_image(image_path, config), with the    *)
(*               recognizer, the file system and the thread pool as the    *)
(*               environment.                                              *)
(***************************************************************************)
EXTENDS Integers, Sequences, FiniteSets, TLC

VARIABLES
    sp_pc,        \* split_image: "ready" before the call, "done" after it
    sp_img,       \* split_image: img.size, <<width, height>>
    sp_config,    \* split_image: the config dict after config.get defaults
    sp_result     \* split_image: the returned dict

sp_vars == <<sp_pc, sp_img, sp_config, sp_result>>

VARIABLES
    pc,             \* process_image: the step the run is at
    img,            \* orig_img.size, <<orig_width, orig_height>>
    config,         \* the caller's config argument (a partial dict)
    cfg,            \* the effective configuration (lines 500-523)
    chunks,         \* the list returned by create_image_chunks
    ci,             \* 1-based position of the for loop of lines 544-551
    files,          \* temporary tile files present in tempfile.gettempdir()
    result1,        \* future1 / result1 of the recognition in progress
    result2,        \* future2 / result2 of the recognition in progress
    ret,            \* the value process_single_chunk is about to return
    chunk_results,  \* the list chunk_results of line 543
    merged,         \* the dict returned by merge_chunk_results
    resized_path,   \* what smart_resize_image returned: "original"/"resized"
    result,         \* the dict process_image returns
    hist,           \* history: per finished chunk, what its passes returned
    raised,         \* history: an exception was raised in the current chunk
    first_done,     \* history: the pass of the current pair that ended first
    faults,         \* history: the number of calls that have raised so far
    surface,        \* processed_img.size / img.size of the surface recognized
    passes          \* history: run_tesseract_pass calls for the current surface

ocr_vars == <<pc, img, config, cfg, chunks, ci, files, result1, result2, ret,
              chunk_results, merged, resized_path, result, hist, raised,
              first_done, faults, surface, passes>>

VARIABLES
    scratch,      \* tempfile.gettempdir(): resized copies, tile files, cache
    runs          \* concurrent process_image runs: one record per process

cache_vars == <<scratch, runs>>

vars == <<sp_vars, ocr_vars, cache_vars>>

-----------------------------------------------------------------------------
(* Bounds of the split_image inputs.                                       *)
MaxDim == 9          \* image width and height range over 1..MaxDim
MaxTile == 4         \* max_width and max_height range over 1..MaxTile
MaxOverlap == 4      \* overlap ranges over 0..MaxOverlap

AspectThresholds == {2, 5}   \* aspect_ratio_threshold (5.0 is the default)

-----------------------------------------------------------------------------
(* Arithmetic helpers.                                                     *)
Max(a, b) == IF a >= b THEN a ELSE b
Min(a, b) == IF a <= b THEN a ELSE b

(* math.ceil(a / b) for an integer a >= 0 and an integer b # 0: the float  *)
(* quotient is <= 0 when b < 0, and ceil(-q) = -floor(q).                  *)
CeilDiv(a, b) ==
    IF b > 0 THEN (a + b - 1) \div b
    ELSE 0 - (a \div (0 - b))

(* range(n) shifted to 1..n: empty when n <= 0.                            *)
Range1(n) == IF n >= 1 THEN 1..n ELSE {}

-----------------------------------------------------------------------------
(* split_image, server/image-splitter.py                                   *)

(* needs_chunking, server/ocr-service.py lines 24-43:                      *)
(* max(width/height, height/width) > 5 is max(w,h) > 5*min(w,h).           *)
needs_chunking(width, height, max_chunk_width, max_chunk_height) ==
    LET aspect_over_5 == IF Min(width, height) > 0
                         THEN Max(width, height) > 5 * Min(width, height)
                         ELSE FALSE
    IN  width > max_chunk_width \/ height > max_chunk_height \/ aspect_over_5

(* needs_split: lines 45-51.  max(w,h)/min(w,h) > t over the floats is     *)
(* max(w,h) > t*min(w,h) for an integral t and min(w,h) > 0.               *)
NeedsSplitGE(w, h, sc) ==
    \/ w >= sc.max_width
    \/ h >= sc.max_height
    \/ Max(w, h) > sc.aspect_ratio_threshold * Min(w, h)

NeedsSplit(w, h, sc) ==
    \/ w > sc.max_width
    \/ h > sc.max_height
    \/ Max(w, h) > sc.aspect_ratio_threshold * Min(w, h)

(* 1 + math.ceil(max(0, dimension - tile_size) / step): lines 75, 76, 123, *)
(* 156.                                                                    *)
NumTilesFloor(dimension, tile_size, step) ==
    IF step > 0 THEN 1 + (Max(0, dimension - tile_size) \div step)
    ELSE 1 + CeilDiv(Max(0, dimension - tile_size), step)

NumTiles(dimension, tile_size, step) ==
    1 + CeilDiv(Max(0, dimension - tile_size), step)

(* The offset of tile i (0-based) along an axis: lines 82, 87, 128, 161.   *)
TileOffsetClamped(i, step, dimension, tile_size) ==
    Max(0, Min(i * step, dimension - tile_size))

TileOffset(i, step, dimension, tile_size) == i * step

(* The extent of the tile at an offset: lines 84, 89, 130, 163.            *)
CurrentTileSize(tile_size, dimension, offset) ==
    Min(tile_size, dimension - offset)

(* Lines 118-149: vertical strips, top to bottom.                          *)
VerticalTiles(w, h, sc) ==
    LET tile_height == sc.max_height
        y_step == tile_height - sc.overlap
        num_tiles == NumTiles(h, tile_height, y_step)
    IN  [k \in Range1(num_tiles) |->
           LET y_offset == TileOffset(k - 1, y_step, h, tile_height)
               current_tile_height == CurrentTileSize(tile_height, h, y_offset)
               box == <<0, y_offset, w, y_offset + current_tile_height>>
           IN  [index |-> k,
                dimensions |-> <<box[3] - box[1], box[4] - box[2]>>,
                box |-> box]]

(* Lines 151-182: horizontal strips, left to right.                        *)
HorizontalTiles(w, h, sc) ==
    LET tile_width == sc.max_width
        x_step == tile_width - sc.overlap
        num_tiles == NumTiles(w, tile_width, x_step)
    IN  [k \in Range1(num_tiles) |->
           LET x_offset == TileOffset(k - 1, x_step, w, tile_width)
               current_tile_width == CurrentTileSize(tile_width, w, x_offset)
               box == <<x_offset, 0, x_offset + current_tile_width, h>>
           IN  [index |-> k,
                dimensions |-> <<box[3] - box[1], box[4] - box[2]>>,
                box |-> box]]

(* Lines 66-116: the 2-D grid, row-major, tile_index counting from 1.      *)
GridTiles(w, h, sc) ==
    LET tile_width == sc.max_width
        tile_height == sc.max_height
        x_step == tile_width - sc.overlap
        y_step == tile_height - sc.overlap
        num_cols == NumTiles(w, tile_width, x_step)
        num_rows == NumTiles(h, tile_height, y_step)
        count == IF num_rows >= 1 /\ num_cols >= 1
                 THEN num_rows * num_cols ELSE 0
    IN  [k \in Range1(count) |->
           LET row == (k - 1) \div num_cols
               col == (k - 1) % num_cols
               y_offset == TileOffset(row, y_step, h, tile_height)
               x_offset == TileOffset(col, x_step, w, tile_width)
               current_tile_height == CurrentTileSize(tile_height, h, y_offset)
               current_tile_width == CurrentTileSize(tile_width, w, x_offset)
               box == <<x_offset, y_offset,
                        x_offset + current_tile_width,
                        y_offset + current_tile_height>>
           IN  [index |-> k,
                dimensions |-> <<box[3] - box[1], box[4] - box[2]>>,
                box |-> box,
                grid_position |-> <<row, col>>]]

(* The dict returned on an exception (lines 193-199); the only exception   *)
(* the arithmetic can raise is the ZeroDivisionError of a zero step.       *)
SplitFailure == [success |-> FALSE]

(* The whole of split_image, as a function of img.size and the config.     *)
split_image(w, h, sc) ==
    IF ~NeedsSplit(w, h, sc)
    THEN [success |-> TRUE, should_split |-> FALSE,
          original_dimensions |-> <<w, h>>, tiles |-> <<>>, tile_count |-> 0]
    ELSE LET exceeds_width == w > sc.max_width
             exceeds_height == h > sc.max_height
             x_step == sc.max_width - sc.overlap
             y_step == sc.max_height - sc.overlap
         IN  IF exceeds_width /\ exceeds_height
             THEN IF x_step = 0 \/ y_step = 0 THEN SplitFailure
                  ELSE [success |-> TRUE, should_split |-> TRUE,
                        original_dimensions |-> <<w, h>>,
                        tiles |-> GridTiles(w, h, sc),
                        tile_count |-> Len(GridTiles(w, h, sc)),
                        split_mode |-> "grid"]
             ELSE IF exceeds_height
             THEN IF y_step = 0 THEN SplitFailure
                  ELSE [success |-> TRUE, should_split |-> TRUE,
                        original_dimensions |-> <<w, h>>,
                        tiles |-> VerticalTiles(w, h, sc),
                        tile_count |-> Len(VerticalTiles(w, h, sc)),
                        split_mode |-> "vertical"]
             ELSE IF x_step = 0 THEN SplitFailure
                  ELSE [success |-> TRUE, should_split |-> TRUE,
                        original_dimensions |-> <<w, h>>,
                        tiles |-> HorizontalTiles(w, h, sc),
                        tile_count |-> Len(HorizontalTiles(w, h, sc)),
                        split_mode |-> "horizontal"]

-----------------------------------------------------------------------------
(* server/ocr-service.py: the pure parts.                                  *)

(* Bound of the process_image inputs: the image is 1300 or 2600 pixels     *)
(* wide, one or two chunk columns, and 1100*k pixels high.                 *)
MaxHeightUnits == 4

(* Bound of the environment: at most MaxFaults of the calls into the image *)
(* library, the recognizer and the file system raise during one run.       *)
MaxFaults == 1

ImageWidths == {1300, 2600}

ImageSizes ==
    {<<w, 1100 * j>> : w \in ImageWidths, j \in 1..MaxHeightUnits}

(* The defaults of needs_chunking (line 24) and create_image_chunks        *)
(* (line 45), which process_image never overrides (lines 533, 537).        *)
ChunkWidth == 2550
ChunkHeight == 3300
ChunkOverlap == 100

(* Texts are sequences of characters; str.strip() removes the white space  *)
(* at both ends.                                                           *)
NL == "\n"
WhiteSpace == {" ", NL}

RECURSIVE LStrip(_)
LStrip(s) ==
    IF s = <<>> THEN s
    ELSE IF Head(s) \in WhiteSpace THEN LStrip(Tail(s)) ELSE s

RECURSIVE RStrip(_)
RStrip(s) ==
    IF s = <<>> THEN s
    ELSE IF s[Len(s)] \in WhiteSpace THEN RStrip(SubSeq(s, 1, Len(s) - 1))
    ELSE s

Strip(s) == RStrip(LStrip(s))

(* '\n'.join(parts)                                                        *)
RECURSIVE JoinLines(_)
JoinLines(parts) ==
    IF parts = <<>> THEN <<>>
    ELSE IF Len(parts) = 1 THEN parts[1]
    ELSE parts[1] \o <<NL>> \o JoinLines(Tail(parts))

RECURSIVE SumSeq(_)
SumSeq(q) == IF q = <<>> THEN 0 ELSE Head(q) + SumSeq(Tail(q))

RECURSIVE Flatten(_)
Flatten(qq) == IF qq = <<>> THEN <<>> ELSE Head(qq) \o Flatten(Tail(qq))

(* The loop variable of lines 75-105 along one axis: 0, step, 2*step, ...  *)
(* while it is below the dimension (step > 0 for the defaults).            *)
RECURSIVE Offsets(_, _, _)
Offsets(x, dimension, step) ==
    IF x < dimension
    THEN <<x>> \o Offsets(x + step, dimension, step)
    ELSE <<>>

(* create_image_chunks, lines 63-109: rows outermost, chunk_index from 0.  *)
create_image_chunks_by_column(width, height, chunk_width, chunk_height, overlap) ==
    LET xs == Offsets(0, width, chunk_width - overlap)
        ys == Offsets(0, height, chunk_height - overlap)
    IN  [k \in 1..(Len(xs) * Len(ys)) |->
           LET x == xs[((k - 1) \div Len(ys)) + 1]
               y == ys[((k - 1) % Len(ys)) + 1]
           IN  [x_offset |-> x, y_offset |-> y, chunk_index |-> k - 1,
                width |-> Min(x + chunk_width, width) - x,
                height |-> Min(y + chunk_height, height) - y]]

create_image_chunks(width, height, chunk_width, chunk_height, overlap) ==
    LET x_step == chunk_width - overlap
        y_step == chunk_height - overlap
        xs == Offsets(0, width, x_step)
        ys == Offsets(0, height, y_step)
    IN  [k \in 1..(Len(xs) * Len(ys)) |->
           LET y == ys[((k - 1) \div Len(xs)) + 1]
               x == xs[((k - 1) % Len(xs)) + 1]
               x_end == Min(x + chunk_width, width)
               y_end == Min(y + chunk_height, height)
           IN  [x_offset |-> x, y_offset |-> y, chunk_index |-> k - 1,
                width |-> x_end - x, height |-> y_end - y]]

(* cv2.resize with fx = fy = 1.5 (line 209): each side becomes 1.5 times   *)
(* its length, rounded to the nearest integer, halves to the even one.     *)
Upscale(n) ==
    LET d == 3 * n
        k == d \div 2
    IN  IF d % 2 = 0 THEN k ELSE IF k % 2 = 0 THEN k ELSE k + 1

(* The size of the surface preprocess_image returns for a file of size     *)
(* <<width, height>>, lines 182-247: the file's own size without           *)
(* preprocessing; with it, only the upscale step changes the size, and a   *)
(* cached surface has the size it was stored with.                         *)
preprocess_image_size(size, c) ==
    IF c.preprocessing /\ c.upscale
    THEN <<Upscale(size[1]), Upscale(size[2])>>
    ELSE size

(* smart_resize_image, lines 134-148: the size of the file it returns.     *)
(* The scale is the smaller of max_width/width and max_height/height; the  *)
(* new sides are rounded down.                                             *)
smart_resize_image_size(size, max_width, max_height) ==
    LET width == size[1]
        height == size[2]
        by_height == \/ ~(width > max_width)
                     \/ (height > max_height
                         /\ max_height * width <= max_width * height)
    IN  IF width <= max_width /\ height <= max_height THEN size
        ELSE IF by_height
        THEN <<(width * max_height) \div height, max_height>>
        ELSE <<max_width, (height * max_width) \div width>>

NoSurface == <<0, 0>>

(* Lines 500-513.                                                          *)
default_config ==
    [oem |-> 1, psm1 |-> 6, psm2 |-> 3, preprocessing |-> TRUE,
     upscale |-> TRUE, denoise |-> TRUE, deskew |-> TRUE,
     performancePreset |-> "balanced", enableCache |-> TRUE,
     maxWidth |-> 2000, maxHeight |-> 3000]

(* dict.update, line 517.                                                  *)
Update(d, c) ==
    [k \in (DOMAIN d) \cup (DOMAIN c) |-> IF k \in DOMAIN c THEN c[k] ELSE d[k]]

(* apply_performance_preset, lines 254-276.                                *)
apply_performance_preset(c, preset) ==
    IF preset = "fast"
    THEN [c EXCEPT !.upscale = FALSE, !.denoise = FALSE, !.deskew = FALSE,
                   !.psm2 = c.psm1]
    ELSE IF preset = "balanced"
    THEN [c EXCEPT !.upscale = TRUE, !.denoise = FALSE, !.deskew = FALSE]
    ELSE IF preset = "accurate"
    THEN [c EXCEPT !.upscale = TRUE, !.denoise = TRUE, !.deskew = TRUE]
    ELSE c

(* Lines 515-523: defaults, the caller's config, then the preset.          *)
EffectiveConfig(c) ==
    LET u == Update(default_config, c)
    IN  IF u.performancePreset # ""
        THEN apply_performance_preset(u, u.performancePreset)
        ELSE u

(* The caller's config arguments of the model: none, and the fast preset.  *)
NoConfig == [k \in {} |-> 0]
Configs == {NoConfig, [performancePreset |-> "fast"]}

(* What the recognizer may report for a surface s = <<width, height>>: the *)
(* string of image_to_string and the rows of image_to_data.  A row with    *)
(* conf -1 is a layout row, a row with conf 0 a word without confidence.   *)
(* Every row lies inside the surface; the second word of OutcomeA ends at  *)
(* the surface's right and bottom edges.                                   *)
Token(t, c, l, tp, w, h) ==
    [text |-> t, conf |-> c, left |-> l, top |-> tp, width |-> w, height |-> h]

OutcomeA(s) ==
    [text |-> <<"a">>,
     data |-> <<Token("a", 80, 10, 10, 50, 20),
                Token("a", 85, s[1] - 30, s[2] - 20, 30, 20)>>]

OutcomeB ==
    [text |-> <<" ", "b", NL>>,
     data |-> <<Token("", 0 - 1, 0, 0, 90, 40), Token("b", 75, 10, 10, 50, 20),
                Token("b", 0, 70, 10, 9, 9)>>]

OutcomeW ==
    [text |-> <<" ", NL>>,
     data |-> <<Token("w", 60, 5, 5, 8, 8)>>]

Outcomes(s) == {OutcomeA(s), OutcomeB, OutcomeW}

(* What the engine reports under the second configuration of a dual pass   *)
(* (lines 332 and 598): two of the three outcomes, which keeps a page of   *)
(* four chunks within reach of the model checker and still gives a tie     *)
(* (a/a), a win of either side (a/w, b/a) and a chunk without text (w/w).  *)
Outcomes2(s) == {OutcomeA(s), OutcomeW}

(* run_tesseract_pass, lines 278-291, on what the engine reported.  `by`   *)
(* is a history tag naming the pass (1 or 2) that produced a row.          *)
Conf(q) == [i \in 1..Len(q) |-> q[i].conf]

IsConfident(t) == t.conf > 0

FloorMean(total, n) == IF n > 0 THEN total \div n ELSE 0

run_tesseract_pass(o, by) ==
    LET conf_values == Conf(SelectSeq(o.data, IsConfident))
    IN  [state |-> "done",
         data |-> [i \in 1..Len(o.data) |->
                     [text |-> o.data[i].text, conf |-> o.data[i].conf,
                      left |-> o.data[i].left, top |-> o.data[i].top,
                      width |-> o.data[i].width, height |-> o.data[i].height,
                      by |-> by]],
         text |-> o.text,
         confidence |-> FloorMean(SumSeq(conf_values), Len(conf_values))]

NotRun == [state |-> "none"]
Running == [state |-> "running"]
Raised == [state |-> "raised"]

(* The consensus rule of lines 344, 458 and 624: the first pass wins       *)
(* unless the second is strictly more confident.                           *)
PrimaryWinsStrictly(conf1, conf2) == conf1 > conf2

PrimaryWins(conf1, conf2) == conf1 >= conf2

(* One bounding box, lines 368-375.                                        *)
RebaseBoxXOnly(t, x_offset, y_offset) ==
    [text |-> t.text, confidence |-> t.conf,
     x |-> t.left + x_offset, y |-> t.top + x_offset,
     width |-> t.width, height |-> t.height, by |-> t.by]

RebaseBox(t, x_offset, y_offset) ==
    [text |-> t.text, confidence |-> t.conf,
     x |-> t.left + x_offset, y |-> t.top + y_offset,
     width |-> t.width, height |-> t.height, by |-> t.by]

(* Lines 363-376 (and 635-648 with offsets 0).                             *)
ExtractBoxes(data, x_offset, y_offset) ==
    LET kept == SelectSeq(data, IsConfident)
    IN  [i \in 1..Len(kept) |-> RebaseBox(kept[i], x_offset, y_offset)]

(* The dict of the except clause of process_single_chunk, lines 392-400.   *)
ChunkErrorWithMessage ==
    [pytesseract_text |-> <<"e">>, pytesseract_conf |-> 0,
     easyocr_text |-> <<>>, easyocr_conf |-> 0, consensus_conf |-> 0,
     bounding_boxes |-> <<>>, source |-> "error"]

ChunkError ==
    [pytesseract_text |-> <<>>, pytesseract_conf |-> 0,
     easyocr_text |-> <<>>, easyocr_conf |-> 0, consensus_conf |-> 0,
     bounding_boxes |-> <<>>, source |-> "error"]

(* Lines 337-351 and 363-386: the dual-pass value of process_single_chunk. *)
DualChunkResult(r1, r2, x_offset, y_offset) ==
    LET pytesseract_conf == r1.confidence
        easyocr_conf == r2.confidence
        first == PrimaryWins(pytesseract_conf, easyocr_conf)
        best_result == IF first THEN r1 ELSE r2
    IN  [pytesseract_text |-> Strip(r1.text),
         pytesseract_conf |-> pytesseract_conf,
         easyocr_text |-> Strip(r2.text),
         easyocr_conf |-> easyocr_conf,
         consensus_conf |-> IF first THEN pytesseract_conf ELSE easyocr_conf,
         bounding_boxes |-> ExtractBoxes(best_result.data, x_offset, y_offset),
         source |-> IF first THEN "pytesseract_config1"
                    ELSE "pytesseract_config2"]

(* Lines 352-361 and 363-386: the single-pass value.                       *)
SingleChunkResult(r1, x_offset, y_offset) ==
    [pytesseract_text |-> Strip(r1.text),
     pytesseract_conf |-> r1.confidence,
     easyocr_text |-> Strip(r1.text),
     easyocr_conf |-> r1.confidence,
     consensus_conf |-> r1.confidence,
     bounding_boxes |-> ExtractBoxes(r1.data, x_offset, y_offset),
     source |-> "pytesseract_config1"]

(* merge_chunk_results, lines 409-475.                                     *)
HasText(t) == Strip(t) # <<>>

IsValidChunkPrimaryOnly(chunk) == HasText(chunk.pytesseract_text)

IsValidChunk(chunk) ==
    HasText(chunk.pytesseract_text) \/ HasText(chunk.easyocr_text)

HasPrimary(chunk) == HasText(chunk.pytesseract_text)
HasSecondary(chunk) == HasText(chunk.easyocr_text)

merge_chunk_results(results) ==
    LET valid == SelectSeq(results, IsValidChunk)
        withPrimary == SelectSeq(valid, HasPrimary)
        withSecondary == SelectSeq(valid, HasSecondary)
        pytesseract_parts ==
            [i \in 1..Len(withPrimary) |-> Strip(withPrimary[i].pytesseract_text)]
        easyocr_parts ==
            [i \in 1..Len(withSecondary) |-> Strip(withSecondary[i].easyocr_text)]
        all_bboxes == Flatten([i \in 1..Len(valid) |-> valid[i].bounding_boxes])
        valid_chunks == Len(valid)
        avg_pytesseract_conf ==
            FloorMean(SumSeq([i \in 1..Len(valid) |-> valid[i].pytesseract_conf]),
                      valid_chunks)
        avg_easyocr_conf ==
            FloorMean(SumSeq([i \in 1..Len(valid) |-> valid[i].easyocr_conf]),
                      valid_chunks)
        merged_pytesseract == JoinLines(pytesseract_parts)
        merged_easyocr == JoinLines(easyocr_parts)
        first == PrimaryWins(avg_pytesseract_conf, avg_easyocr_conf)
    IN  [success |-> TRUE,
         pytesseract_text |-> merged_pytesseract,
         pytesseract_confidence |-> avg_pytesseract_conf,
         easyocr_text |-> merged_easyocr,
         easyocr_confidence |-> avg_easyocr_conf,
         consensus_text |-> IF first THEN merged_pytesseract ELSE merged_easyocr,
         consensus_source |-> IF first
                              THEN "chunked_processing_pytesseract_config1"
                              ELSE "chunked_processing_pytesseract_config2",
         bounding_boxes |-> all_bboxes,
         chunk_count |-> valid_chunks]

(* Lines 557-566: what process_image returns of the merged dict.           *)
ChunkedReturn(m) ==
    [success |-> m.success,
     pytesseract_text |-> m.pytesseract_text,
     pytesseract_confidence |-> m.pytesseract_confidence,
     easyocr_text |-> m.easyocr_text,
     easyocr_confidence |-> m.easyocr_confidence,
     consensus_text |-> m.consensus_text,
     consensus_source |-> m.consensus_source,
     bounding_boxes |-> m.bounding_boxes]

(* Lines 603-661: the single-pass return value; r2 is r1 in fast mode.     *)
SinglePassReturn(r1, r2) ==
    LET first == PrimaryWins(r1.confidence, r2.confidence)
        best == IF first THEN r1 ELSE r2
    IN  [success |-> TRUE,
         pytesseract_text |-> Strip(r1.text),
         pytesseract_confidence |-> r1.confidence,
         easyocr_text |-> Strip(r2.text),
         easyocr_confidence |-> r2.confidence,
         consensus_text |-> Strip(best.text),
         consensus_source |-> IF first THEN "pytesseract_config1"
                              ELSE "pytesseract_config2",
         bounding_boxes |-> ExtractBoxes(best.data, 0, 0)]

(* Lines 663-667.                                                          *)
Failure == [success |-> FALSE]

NoResult == [success |-> FALSE, pending |-> TRUE]

(* The state of the process_image variables before the call.               *)
OcrIdle ==
    /\ pc = "start"
    /\ cfg = default_config
    /\ chunks = <<>>
    /\ ci = 0
    /\ files = {}
    /\ result1 = NotRun
    /\ result2 = NotRun
    /\ ret = NoResult
    /\ chunk_results = <<>>
    /\ merged = NoResult
    /\ resized_path = "original"
    /\ result = NoResult
    /\ hist = <<>>
    /\ raised = FALSE
    /\ first_done = 0
    /\ faults = 0
    /\ surface = NoSurface
    /\ passes = 0

(* The scratch directory before any run, and no run started.               *)
NoFiles == [k \in {} |-> 0]

CacheIdle ==
    /\ scratch = [resized |-> NoFiles, tile |-> NoFiles, cache |-> NoFiles]
    /\ runs = NoFiles

-----------------------------------------------------------------------------
(* SplitSpec: one call of split_image.                                     *)

SplitConfigs ==
    [max_width : 1..MaxTile, max_height : 1..MaxTile,
     overlap : 0..MaxOverlap, aspect_ratio_threshold : AspectThresholds]

(* The configuration of the 5100x3300 scenario: the config.get defaults    *)
(* of lines 40-43.                                                         *)
DefaultSplitConfig ==
    [max_width |-> 2550, max_height |-> 3300,
     overlap |-> 100, aspect_ratio_threshold |-> 5]

ScenarioImg == <<5100, 3300>>

SplitInit ==
    /\ OcrIdle
    /\ CacheIdle
    /\ img = <<1300, 1100>>
    /\ config = NoConfig
    /\ sp_pc = "ready"
    /\ sp_result = [success |-> FALSE]
    /\ \/ /\ sp_img \in (1..MaxDim) \X (1..MaxDim)
          /\ sp_config \in SplitConfigs
       \/ /\ sp_img = ScenarioImg
          /\ sp_config = DefaultSplitConfig

SplitReturn ==
    /\ sp_pc = "ready"
    /\ sp_pc' = "done"
    /\ sp_result' = split_image(sp_img[1], sp_img[2], sp_config)
    /\ UNCHANGED <<sp_img, sp_config>>
    /\ UNCHANGED <<ocr_vars, cache_vars>>

(* Lines 53-60: no split needed.                                           *)
SplitNotNeeded ==
    /\ ~NeedsSplit(sp_img[1], sp_img[2], sp_config)
    /\ SplitReturn

(* Lines 66-116.                                                           *)
SplitGrid ==
    /\ NeedsSplit(sp_img[1], sp_img[2], sp_config)
    /\ sp_img[1] > sp_config.max_width
    /\ sp_img[2] > sp_config.max_height
    /\ SplitReturn

(* Lines 118-149.                                                          *)
SplitVertical ==
    /\ NeedsSplit(sp_img[1], sp_img[2], sp_config)
    /\ ~(sp_img[1] > sp_config.max_width)
    /\ sp_img[2] > sp_config.max_height
    /\ SplitReturn

(* Lines 151-182.                                                          *)
SplitHorizontal ==
    /\ NeedsSplit(sp_img[1], sp_img[2], sp_config)
    /\ ~(sp_img[2] > sp_config.max_height)
    /\ SplitReturn

SplitNext == SplitNotNeeded \/ SplitGrid \/ SplitVertical \/ SplitHorizontal

SplitSpec == SplitInit /\ [][SplitNext]_vars

-----------------------------------------------------------------------------
(* Spec: one run of process_image.  The recognizer, the image library and  *)
(* the file system are the environment: every call into them either        *)
(* returns or raises.                                                      *)

SplitIdle ==
    /\ sp_pc = "ready"
    /\ sp_img = <<1, 1>>
    /\ sp_config = DefaultSplitConfig
    /\ sp_result = [success |-> FALSE]

Init ==
    /\ OcrIdle
    /\ img \in ImageSizes
    /\ config \in Configs
    /\ SplitIdle
    /\ CacheIdle

CurChunk == chunks[ci]

(* One more call into the environment raises.                              *)
Fault ==
    /\ faults < MaxFaults
    /\ faults' = faults + 1
    /\ UNCHANGED <<sp_vars, cache_vars>>

(* Line 309: chunk_{x_offset}_{y_offset}_{pid}.png, the pid being fixed.   *)
TempChunkPath(chunk) == <<"chunk", chunk.x_offset, chunk.y_offset>>

(* run_dual_pass, lines 324 and 590.                                       *)
RunDualPassAlways == TRUE

RunDualPass == cfg.psm1 # cfg.psm2

(* Lines 499-530: build the configuration and read the image size.         *)
Start ==
    /\ UNCHANGED <<faults, sp_vars, cache_vars>>
    /\ pc = "start"
    /\ cfg' = EffectiveConfig(config)
    /\ pc' = "dimcheck"
    /\ UNCHANGED <<surface, passes>>
    /\ UNCHANGED <<img, config, chunks, ci, files, result1, result2, ret,
                   chunk_results, merged, resized_path, result, hist, raised,
                   first_done>>

(* Line 526 raises: the image cannot be opened (lines 663-667).            *)
OpenFails ==
    /\ Fault
    /\ pc = "start"
    /\ cfg' = EffectiveConfig(config)
    /\ result' = Failure
    /\ pc' = "done"
    /\ UNCHANGED <<surface, passes>>
    /\ UNCHANGED <<img, config, chunks, ci, files, result1, result2, ret,
                   chunk_results, merged, resized_path, hist, raised,
                   first_done>>

NeedsChunkingNever == FALSE

NeedsChunking == needs_chunking(img[1], img[2], ChunkWidth, ChunkHeight)

(* Lines 533-543: the image needs chunking and the chunks are cut.         *)
ChunkingNeeded ==
    /\ UNCHANGED <<faults, sp_vars, cache_vars>>
    /\ pc = "dimcheck"
    /\ NeedsChunking
    /\ chunks' = create_image_chunks(img[1], img[2], ChunkWidth, ChunkHeight,
                                     ChunkOverlap)
    /\ ci' = 1
    /\ pc' = "chunk_save"
    /\ UNCHANGED <<surface, passes>>
    /\ UNCHANGED <<img, config, cfg, files, result1, result2, ret,
                   chunk_results, merged, resized_path, result, hist, raised,
                   first_done>>

(* Lines 111-113 and 538-540: create_image_chunks raised and returned [],  *)
(* the run falls back to the standard processing.                          *)
ChunkingFails ==
    /\ Fault
    /\ pc = "dimcheck"
    /\ NeedsChunking
    /\ chunks' = <<>>
    /\ pc' = "resize"
    /\ UNCHANGED <<surface, passes>>
    /\ UNCHANGED <<img, config, cfg, ci, files, result1, result2, ret,
                   chunk_results, merged, resized_path, result, hist, raised,
                   first_done>>

(* Line 533 is false.                                                      *)
ChunkingNotNeeded ==
    /\ UNCHANGED <<faults, sp_vars, cache_vars>>
    /\ pc = "dimcheck"
    /\ ~NeedsChunking
    /\ pc' = "resize"
    /\ UNCHANGED <<surface, passes>>
    /\ UNCHANGED <<img, config, cfg, chunks, ci, files, result1, result2, ret,
                   chunk_results, merged, resized_path, result, hist, raised,
                   first_done>>

(* process_single_chunk, lines 306-310: the tile is written to its         *)
(* temporary file.                                                         *)
SaveChunk ==
    /\ UNCHANGED <<faults, sp_vars, cache_vars>>
    /\ pc = "chunk_save"
    /\ files' = files \cup {TempChunkPath(CurChunk)}
    /\ pc' = "chunk_pre"
    /\ UNCHANGED <<surface, passes>>
    /\ UNCHANGED <<img, config, cfg, chunks, ci, result1, result2, ret,
                   chunk_results, merged, resized_path, result, hist, raised,
                   first_done>>

(* The except clause, lines 388-400: the chunk's value is the empty one.   *)
ChunkExcept ==
    /\ raised' = TRUE
    /\ ret' = ChunkError
    /\ pc' = "chunk_finally"

(* chunk_img.save raises, with or without the file having been created.    *)
SaveChunkRaises ==
    /\ Fault
    /\ pc = "chunk_save"
    /\ \E created \in BOOLEAN :
          files' = IF created THEN files \cup {TempChunkPath(CurChunk)}
                   ELSE files
    /\ ChunkExcept
    /\ UNCHANGED <<surface, passes>>
    /\ UNCHANGED <<img, config, cfg, chunks, ci, result1, result2,
                   chunk_results, merged, resized_path, result, hist,
                   first_done>>

(* Lines 312-320: preprocess_image returns a surface.                      *)
PreprocessChunk ==
    /\ UNCHANGED <<faults, sp_vars, cache_vars>>
    /\ pc = "chunk_pre"
    /\ pc' = "chunk_rec"
    /\ surface' = preprocess_image_size(<<CurChunk.width, CurChunk.height>>, cfg)
    /\ UNCHANGED passes
    /\ UNCHANGED <<img, config, cfg, chunks, ci, files, result1, result2, ret,
                   chunk_results, merged, resized_path, result, hist, raised,
                   first_done>>

(* preprocess_image raises (its fallback Image.open of lines 183, 202 and  *)
(* 252 is outside its own try).                                            *)
PreprocessChunkRaises ==
    /\ Fault
    /\ pc = "chunk_pre"
    /\ ChunkExcept
    /\ UNCHANGED <<surface, passes>>
    /\ UNCHANGED <<img, config, cfg, chunks, ci, files, result1, result2,
                   chunk_results, merged, resized_path, result, hist,
                   first_done>>

(* Lines 326-332 and 592-598: both passes are submitted to the pool.       *)
SubmitPasses ==
    /\ UNCHANGED <<faults, sp_vars, cache_vars>>
    /\ pc \in {"chunk_rec", "rec"}
    /\ RunDualPass
    /\ result1' = Running
    /\ result2' = Running
    /\ first_done' = 0
    /\ pc' = IF pc = "chunk_rec" THEN "chunk_wait" ELSE "wait"
    /\ passes' = passes + 2
    /\ UNCHANGED surface
    /\ UNCHANGED <<img, config, cfg, chunks, ci, files, ret, chunk_results,
                   merged, resized_path, result, hist, raised>>

(* A worker thread finishes run_tesseract_pass for config 1.               *)
FinishPass1 ==
    /\ UNCHANGED <<faults, sp_vars, cache_vars>>
    /\ result1 = Running
    /\ \E o \in Outcomes(surface) : result1' = run_tesseract_pass(o, 1)
    /\ first_done' = IF first_done = 0 THEN 1 ELSE first_done
    /\ UNCHANGED <<surface, passes>>
    /\ UNCHANGED <<pc, img, config, cfg, chunks, ci, files, result2, ret,
                   chunk_results, merged, resized_path, result, hist, raised>>

(* run_tesseract_pass for config 1 raises in its worker thread.            *)
Pass1Raises ==
    /\ Fault
    /\ result1 = Running
    /\ result1' = Raised
    /\ first_done' = IF first_done = 0 THEN 1 ELSE first_done
    /\ UNCHANGED <<surface, passes>>
    /\ UNCHANGED <<pc, img, config, cfg, chunks, ci, files, result2, ret,
                   chunk_results, merged, resized_path, result, hist, raised>>

(* A worker thread finishes run_tesseract_pass for config 2.               *)
FinishPass2 ==
    /\ UNCHANGED <<faults, sp_vars, cache_vars>>
    /\ result2 = Running
    /\ \E o \in Outcomes2(surface) : result2' = run_tesseract_pass(o, 2)
    /\ first_done' = IF first_done = 0 THEN 2 ELSE first_done
    /\ UNCHANGED <<surface, passes>>
    /\ UNCHANGED <<pc, img, config, cfg, chunks, ci, files, result1, ret,
                   chunk_results, merged, resized_path, result, hist, raised>>

(* run_tesseract_pass for config 2 raises in its worker thread.            *)
Pass2Raises ==
    /\ Fault
    /\ result2 = Running
    /\ result2' = Raised
    /\ first_done' = IF first_done = 0 THEN 2 ELSE first_done
    /\ UNCHANGED <<surface, passes>>
    /\ UNCHANGED <<pc, img, config, cfg, chunks, ci, files, result1, ret,
                   chunk_results, merged, resized_path, result, hist, raised>>

BothFinished == result1 # Running /\ result2 # Running

(* Lines 334-386: both futures are awaited (the with block ends when both  *)
(* workers are finished) and the chunk's value is built.                   *)
ChunkConsensus ==
    /\ UNCHANGED <<faults, sp_vars, cache_vars>>
    /\ pc = "chunk_wait"
    /\ BothFinished
    /\ result1 # Raised /\ result2 # Raised
    /\ ret' = DualChunkResult(result1, result2,
                              CurChunk.x_offset, CurChunk.y_offset)
    /\ pc' = "chunk_finally"
    /\ UNCHANGED <<surface, passes>>
    /\ UNCHANGED <<img, config, cfg, chunks, ci, files, result1, result2,
                   chunk_results, merged, resized_path, result, hist, raised,
                   first_done>>

(* future1.result() or future2.result() re-raises the pass's exception.    *)
ChunkConsensusRaises ==
    /\ UNCHANGED <<faults, sp_vars, cache_vars>>
    /\ pc = "chunk_wait"
    /\ BothFinished
    /\ result1 = Raised \/ result2 = Raised
    /\ ChunkExcept
    /\ UNCHANGED <<surface, passes>>
    /\ UNCHANGED <<img, config, cfg, chunks, ci, files, result1, result2,
                   chunk_results, merged, resized_path, result, hist,
                   first_done>>

(* Lines 352-386: psm1 = psm2, one pass in the calling thread.             *)
ChunkSinglePass ==
    /\ UNCHANGED <<faults, sp_vars, cache_vars>>
    /\ pc = "chunk_rec"
    /\ ~RunDualPass
    /\ \E o \in Outcomes(surface) :
          /\ result1' = run_tesseract_pass(o, 1)
          /\ ret' = SingleChunkResult(result1', CurChunk.x_offset,
                                      CurChunk.y_offset)
    /\ pc' = "chunk_finally"
    /\ passes' = passes + 1
    /\ UNCHANGED surface
    /\ UNCHANGED <<img, config, cfg, chunks, ci, files, result2,
                   chunk_results, merged, resized_path, result, hist, raised,
                   first_done>>

ChunkSinglePassRaises ==
    /\ Fault
    /\ pc = "chunk_rec"
    /\ ~RunDualPass
    /\ result1' = Raised
    /\ ChunkExcept
    /\ passes' = passes + 1
    /\ UNCHANGED surface
    /\ UNCHANGED <<img, config, cfg, chunks, ci, files, result2,
                   chunk_results, merged, resized_path, result, hist,
                   first_done>>

(* The finally clause runs on every way out of the try statement.          *)
CleanupOnlyOnSuccess(exception_raised) == ~exception_raised

CleanupRuns(exception_raised) == TRUE

(* Lines 401-407 and 551: the finally clause, then the value is appended   *)
(* to chunk_results and the loop moves on.  os.remove either deletes the   *)
(* file or raises, which is printed and swallowed.                         *)
ChunkReturns(remove_ok) ==
    LET path == TempChunkPath(CurChunk)
        attempted == CleanupRuns(raised) /\ path \in files
    IN  /\ pc = "chunk_finally"
        /\ files' = IF attempted /\ remove_ok THEN files \ {path} ELSE files
        /\ chunk_results' = Append(chunk_results, ret)
        /\ hist' = Append(hist,
                      [result1 |-> IF raised THEN NotRun ELSE result1,
                       result2 |-> IF raised THEN NotRun ELSE result2,
                       failed |-> raised,
                       passes |-> passes,
                       remove_failed |-> attempted /\ ~remove_ok])
        /\ result1' = NotRun
        /\ result2' = NotRun
        /\ ret' = NoResult
        /\ raised' = FALSE
        /\ first_done' = 0
        /\ surface' = NoSurface
        /\ passes' = 0
        /\ ci' = ci + 1
        /\ pc' = IF ci = Len(chunks) THEN "merge" ELSE "chunk_save"
        /\ UNCHANGED <<img, config, cfg, chunks, merged, resized_path, result>>

ChunkFinally ==
    /\ UNCHANGED <<faults, sp_vars, cache_vars>>
    /\ ChunkReturns(TRUE)

(* os.remove raises (lines 406-407).                                       *)
ChunkFinallyRemoveFails ==
    /\ Fault
    /\ pc = "chunk_finally"
    /\ TempChunkPath(CurChunk) \in files
    /\ ChunkReturns(FALSE)

(* Lines 553-566.                                                          *)
Merge ==
    /\ UNCHANGED <<faults, sp_vars, cache_vars>>
    /\ pc = "merge"
    /\ merged' = merge_chunk_results(chunk_results)
    /\ result' = ChunkedReturn(merged')
    /\ pc' = "done"
    /\ UNCHANGED <<surface, passes>>
    /\ UNCHANGED <<img, config, cfg, chunks, ci, files, result1, result2, ret,
                   chunk_results, resized_path, hist, raised, first_done>>

(* smart_resize_image, lines 132-161, called at lines 570-574.             *)
SmartResize ==
    /\ UNCHANGED <<faults, sp_vars, cache_vars>>
    /\ pc = "resize"
    /\ resized_path' = IF img[1] <= cfg.maxWidth /\ img[2] <= cfg.maxHeight
                       THEN "original" ELSE "resized"
    /\ pc' = "pre"
    /\ UNCHANGED <<surface, passes>>
    /\ UNCHANGED <<img, config, cfg, chunks, ci, files, result1, result2, ret,
                   chunk_results, merged, result, hist, raised, first_done>>

(* Lines 163-165: any failure inside returns the original path.            *)
SmartResizeFails ==
    /\ Fault
    /\ pc = "resize"
    /\ resized_path' = "original"
    /\ pc' = "pre"
    /\ UNCHANGED <<surface, passes>>
    /\ UNCHANGED <<img, config, cfg, chunks, ci, files, result1, result2, ret,
                   chunk_results, merged, result, hist, raised, first_done>>

(* Lines 577-584.                                                          *)
PreprocessWhole ==
    /\ UNCHANGED <<faults, sp_vars, cache_vars>>
    /\ pc = "pre"
    /\ pc' = "rec"
    /\ surface' = preprocess_image_size(
                      IF resized_path = "resized"
                      THEN smart_resize_image_size(img, cfg.maxWidth,
                                                   cfg.maxHeight)
                      ELSE img, cfg)
    /\ UNCHANGED passes
    /\ UNCHANGED <<img, config, cfg, chunks, ci, files, result1, result2, ret,
                   chunk_results, merged, resized_path, result, hist, raised,
                   first_done>>

(* Lines 663-667: an exception of the single-pass path ends the run.       *)
PreprocessWholeRaises ==
    /\ Fault
    /\ pc = "pre"
    /\ result' = Failure
    /\ pc' = "done"
    /\ UNCHANGED <<surface, passes>>
    /\ UNCHANGED <<img, config, cfg, chunks, ci, files, result1, result2, ret,
                   chunk_results, merged, resized_path, hist, raised,
                   first_done>>

(* Lines 600-661: both futures are awaited, consensus, the returned dict.  *)
Consensus ==
    /\ UNCHANGED <<faults, sp_vars, cache_vars>>
    /\ pc = "wait"
    /\ BothFinished
    /\ result1 # Raised /\ result2 # Raised
    /\ result' = SinglePassReturn(result1, result2)
    /\ pc' = "done"
    /\ UNCHANGED <<surface, passes>>
    /\ UNCHANGED <<img, config, cfg, chunks, ci, files, result1, result2, ret,
                   chunk_results, merged, resized_path, hist, raised,
                   first_done>>

ConsensusRaises ==
    /\ UNCHANGED <<faults, sp_vars, cache_vars>>
    /\ pc = "wait"
    /\ BothFinished
    /\ result1 = Raised \/ result2 = Raised
    /\ result' = Failure
    /\ pc' = "done"
    /\ UNCHANGED <<surface, passes>>
    /\ UNCHANGED <<img, config, cfg, chunks, ci, files, result1, result2, ret,
                   chunk_results, merged, resized_path, hist, raised,
                   first_done>>

(* Lines 610-661: psm1 = psm2, one pass, its result used for both sides.   *)
FastSinglePass ==
    /\ UNCHANGED <<faults, sp_vars, cache_vars>>
    /\ pc = "rec"
    /\ ~RunDualPass
    /\ \E o \in Outcomes(surface) :
          /\ result1' = run_tesseract_pass(o, 1)
          /\ result' = SinglePassReturn(result1', result1')
    /\ pc' = "done"
    /\ passes' = passes + 1
    /\ UNCHANGED surface
    /\ UNCHANGED <<img, config, cfg, chunks, ci, files, result2, ret,
                   chunk_results, merged, resized_path, hist, raised,
                   first_done>>

FastSinglePassRaises ==
    /\ Fault
    /\ pc = "rec"
    /\ ~RunDualPass
    /\ result1' = Raised
    /\ result' = Failure
    /\ pc' = "done"
    /\ passes' = passes + 1
    /\ UNCHANGED surface
    /\ UNCHANGED <<img, config, cfg, chunks, ci, files, result2, ret,
                   chunk_results, merged, resized_path, hist, raised,
                   first_done>>

Next ==
    \/ Start \/ OpenFails
    \/ ChunkingNeeded \/ ChunkingFails \/ ChunkingNotNeeded
    \/ SaveChunk \/ SaveChunkRaises
    \/ PreprocessChunk \/ PreprocessChunkRaises
    \/ SubmitPasses
    \/ FinishPass1 \/ Pass1Raises \/ FinishPass2 \/ Pass2Raises
    \/ ChunkConsensus \/ ChunkConsensusRaises
    \/ ChunkSinglePass \/ ChunkSinglePassRaises
    \/ ChunkFinally \/ ChunkFinallyRemoveFails
    \/ Merge
    \/ SmartResize \/ SmartResizeFails
    \/ PreprocessWhole \/ PreprocessWholeRaises
    \/ Consensus \/ ConsensusRaises
    \/ FastSinglePass \/ FastSinglePassRaises

Spec == Init /\ [][Next]_vars

-----------------------------------------------------------------------------
(* ConfigSpec: the configuration step of process_image alone, lines        *)
(* 499-530, over the config arguments a caller can send.                   *)

(* A key of the caller's JSON object: absent (<<>>) or present with one    *)
(* value (<<v>>).                                                          *)
Field(name, option) ==
    IF option = <<>> THEN NoConfig ELSE name :> option[1]

Optional(values) == {<<>>} \cup {<<v>> : v \in values}

(* The config arguments of ConfigSpec: any of the keys performancePreset,  *)
(* upscale, denoise, deskew and psm2, each absent or present.              *)
ExplicitConfigs ==
    {Field("performancePreset", p) @@ Field("upscale", u)
        @@ Field("denoise", n) @@ Field("deskew", k) @@ Field("psm2", m) :
        p \in Optional({"fast", "balanced", "accurate", ""}),
        u \in Optional(BOOLEAN), n \in Optional(BOOLEAN),
        k \in Optional(BOOLEAN), m \in Optional({3, 11})}

ConfigInit ==
    /\ OcrIdle
    /\ img = <<1300, 1100>>
    /\ config \in ExplicitConfigs
    /\ SplitIdle
    /\ CacheIdle

ConfigNext == Start \/ OpenFails

ConfigSpec == ConfigInit /\ [][ConfigNext]_vars

-----------------------------------------------------------------------------
(* CacheSpec: two process_image runs in two server processes that share    *)
(* tempfile.gettempdir().  Each run stages the file it hands to            *)
(* preprocess_image (the upload itself, its resized copy, or a tile file), *)
(* preprocesses it with the cache, and recognizes the surface.  A file     *)
(* being written exists, truncated, until its writer has finished.         *)

Runs == {1, 2}

(* The uploads: two different images with the same base name, both above   *)
(* the resize bounds; an image within them; an image that is chunked.      *)
Uploads ==
    {[basename |-> "scan.png", bytes |-> 1, kind |-> "large"],
     [basename |-> "scan.png", bytes |-> 2, kind |-> "large"],
     [basename |-> "note.png", bytes |-> 3, kind |-> "small"],
     [basename |-> "wall.png", bytes |-> 4, kind |-> "huge"]}

(* upscale, denoise, deskew as process_image passes them (lines 580-582).  *)
Flags(u, n, k) == [upscale |-> u, denoise |-> n, deskew |-> k]

FlagSets ==
    {Flags(FALSE, FALSE, FALSE), Flags(TRUE, FALSE, FALSE),
     Flags(TRUE, TRUE, FALSE), Flags(TRUE, TRUE, TRUE)}

(* A file holding an image: the upload (stage "input"), its resized copy   *)
(* or its first tile; whole is FALSE while the file is being written.      *)
ImageFile(bytes, stage, whole) ==
    [bytes |-> bytes, stage |-> stage, whole |-> whole]

(* The file a run hands to preprocess_image when nothing interferes.       *)
StagedFile(upload) ==
    ImageFile(upload.bytes,
              IF upload.kind = "large" THEN "resized"
              ELSE IF upload.kind = "huge" THEN "tile" ELSE "input",
              TRUE)

(* Lines 197-238: the surface the pipeline computes from a decoded file.   *)
Pipeline(file, flags) ==
    [of |-> file, processed |-> TRUE, upscale |-> flags.upscale,
     denoise |-> flags.denoise, deskew |-> flags.deskew, intact |-> TRUE]

(* Lines 202 and 252: Image.open(image_path), the file as it is.           *)
Passthrough(file) ==
    [of |-> file, processed |-> FALSE, upscale |-> FALSE,
     denoise |-> FALSE, deskew |-> FALSE, intact |-> file.whole]

NoSurfaceYet == Passthrough(ImageFile(0, "input", FALSE))

(* processed_img.save(cache_path, 'PNG') and Image.open(cache_path): PNG   *)
(* keeps the pixels; a truncated file does not decode to them.             *)
PngFile(pixels, whole) == [format |-> "PNG", pixels |-> pixels, whole |-> whole]

DecodePng(file) ==
    IF file.whole THEN file.pixels ELSE [file.pixels EXCEPT !.intact = FALSE]

(* get_image_hash, lines 13-16: md5 of the file's bytes, taken as free of  *)
(* collisions.                                                             *)
get_image_hash(file) == [md5 |-> file]

(* f"{enable_upscale}_{enable_denoise}_{enable_deskew}", line 191.         *)
Str(b) == IF b THEN "True" ELSE "False"

PreprocessingConfig(flags) ==
    <<Str(flags.upscale), Str(flags.denoise), Str(flags.deskew)>>

(* get_cache_path, lines 18-22.                                            *)
get_cache_path_without_deskew(image_hash, preprocessing_config) ==
    <<image_hash, <<preprocessing_config[1], preprocessing_config[2], "">> >>

get_cache_path(image_hash, preprocessing_config) ==
    <<image_hash, preprocessing_config>>

(* dict-like update of one file of the scratch directory.                  *)
WriteFile(area, name, file) ==
    [scratch EXCEPT ![area] = (name :> file) @@ scratch[area]]

RemoveFile(area, name) ==
    [scratch EXCEPT ![area] =
        [k \in (DOMAIN scratch[area]) \ {name} |-> scratch[area][k]]]

(* The file at the path a run hands to preprocess_image, as it is now.     *)
(* The resized copy is named after the upload's base name (line 154), the  *)
(* tile file after the offsets and the process id (line 309).              *)
ReadStaged(p) ==
    LET r == runs[p]
    IN  IF r.upload.kind = "large" THEN scratch.resized[r.upload.basename]
        ELSE IF r.upload.kind = "huge" THEN scratch.tile[p]
        ELSE ImageFile(r.upload.bytes, "input", TRUE)

CachePathOf(p) ==
    get_cache_path(runs[p].image_hash, PreprocessingConfig(runs[p].flags))

NewRun(upload, flags, enable_cache) ==
    [pc |-> "ready", upload |-> upload, flags |-> flags,
     enable_cache |-> enable_cache, image_hash |-> get_image_hash(NoSurfaceYet.of),
     surface |-> NoSurfaceYet, hit |-> FALSE, ran |-> FALSE,
     stored |-> FALSE, alone |-> FALSE]

CacheInit ==
    /\ OcrIdle
    /\ img = <<1300, 1100>>
    /\ config = NoConfig
    /\ SplitIdle
    /\ scratch = [resized |-> NoFiles, tile |-> NoFiles, cache |-> NoFiles]
    /\ runs \in [Runs -> {NewRun(u, f, c) : u \in Uploads, f \in FlagSets,
                                            c \in BOOLEAN}]

Others(p) == Runs \ {p}

Step(p, r) ==
    /\ runs' = [runs EXCEPT ![p] = r]
    /\ UNCHANGED <<sp_vars, ocr_vars>>

(* process_image starts; smart_resize_image (lines 133-139) or             *)
(* create_image_chunks leaves a small image alone.  alone records that     *)
(* every other run had returned before this one started.                   *)
StartSmall ==
    \E p \in Runs :
        LET r == runs[p]
        IN  /\ r.pc = "ready"
            /\ r.upload.kind = "small"
            /\ Step(p, [r EXCEPT !.pc = "hash",
                                 !.alone = \A q \in Others(p) :
                                              runs[q].pc = "done"])
            /\ UNCHANGED scratch

(* Lines 151-155 and 309-310: save opens the target file for writing.      *)
StageOpen ==
    \E p \in Runs :
        LET r == runs[p]
            file == ImageFile(r.upload.bytes,
                              IF r.upload.kind = "large" THEN "resized"
                              ELSE "tile", FALSE)
        IN  /\ r.pc = "ready"
            /\ r.upload.kind # "small"
            /\ scratch' = IF r.upload.kind = "large"
                          THEN WriteFile("resized", r.upload.basename, file)
                          ELSE WriteFile("tile", p, file)
            /\ Step(p, [r EXCEPT !.pc = "stage",
                                 !.alone = \A q \in Others(p) :
                                              runs[q].pc = "done"])

(* save has written the whole file.                                        *)
StageWritten ==
    \E p \in Runs :
        LET r == runs[p]
        IN  /\ r.pc = "stage"
            /\ scratch' = IF r.upload.kind = "large"
                          THEN WriteFile("resized", r.upload.basename,
                                         StagedFile(r.upload))
                          ELSE WriteFile("tile", p, StagedFile(r.upload))
            /\ Step(p, [r EXCEPT !.pc = "hash"])

(* Lines 189-192: the file is read and hashed.                             *)
HashFile ==
    \E p \in Runs :
        LET r == runs[p]
        IN  /\ r.pc = "hash"
            /\ r.enable_cache
            /\ Step(p, [r EXCEPT !.pc = "lookup",
                                 !.image_hash = get_image_hash(ReadStaged(p))])
            /\ UNCHANGED scratch

(* enable_cache is false: no hash, no lookup.                              *)
SkipCache ==
    \E p \in Runs :
        LET r == runs[p]
        IN  /\ r.pc = "hash"
            /\ ~r.enable_cache
            /\ Step(p, [r EXCEPT !.pc = "imread"])
            /\ UNCHANGED scratch

(* Lines 194-195: the entry exists and is opened.                          *)
CacheHit ==
    \E p \in Runs :
        LET r == runs[p]
        IN  /\ r.pc = "lookup"
            /\ CachePathOf(p) \in DOMAIN scratch.cache
            /\ Step(p, [r EXCEPT !.pc = "recognize", !.hit = TRUE,
                                 !.surface = DecodePng(scratch.cache[CachePathOf(p)])])
            /\ UNCHANGED scratch

CacheMiss ==
    \E p \in Runs :
        LET r == runs[p]
        IN  /\ r.pc = "lookup"
            /\ CachePathOf(p) \notin DOMAIN scratch.cache
            /\ Step(p, [r EXCEPT !.pc = "imread"])
            /\ UNCHANGED scratch

(* Lines 198-238: cv2.imread decodes the file and the pipeline runs.       *)
RunPipeline ==
    \E p \in Runs :
        LET r == runs[p]
        IN  /\ r.pc = "imread"
            /\ ReadStaged(p).whole
            /\ Step(p, [r EXCEPT !.pc = IF r.enable_cache THEN "store"
                                        ELSE "recognize",
                                 !.ran = TRUE,
                                 !.surface = Pipeline(ReadStaged(p), r.flags)])
            /\ UNCHANGED scratch

(* Lines 200-202: cv2.imread returns None for a file it cannot decode and  *)
(* the file is opened as it is.                                            *)
ImreadFails ==
    \E p \in Runs :
        LET r == runs[p]
        IN  /\ r.pc = "imread"
            /\ ~ReadStaged(p).whole
            /\ Step(p, [r EXCEPT !.pc = "recognize",
                                 !.surface = Passthrough(ReadStaged(p))])
            /\ UNCHANGED scratch

(* Lines 241-243: save opens the cache file for writing.                   *)
StoreOpen ==
    \E p \in Runs :
        LET r == runs[p]
        IN  /\ r.pc = "store"
            /\ scratch' = WriteFile("cache", CachePathOf(p),
                                    PngFile(r.surface, FALSE))
            /\ Step(p, [r EXCEPT !.pc = "storing"])

(* Lines 244-245: save raises before it has created the file; the error    *)
(* is printed and the surface returned.                                    *)
StoreFails ==
    \E p \in Runs :
        LET r == runs[p]
        IN  /\ r.pc = "store"
            /\ Step(p, [r EXCEPT !.pc = "recognize"])
            /\ UNCHANGED scratch

StoreWritten ==
    \E p \in Runs :
        LET r == runs[p]
        IN  /\ r.pc = "storing"
            /\ scratch' = WriteFile("cache", CachePathOf(p),
                                    PngFile(r.surface, TRUE))
            /\ Step(p, [r EXCEPT !.pc = "recognize", !.stored = TRUE])

(* The surface is recognized and the run returns; process_single_chunk     *)
(* removes its tile file (lines 401-405).                                  *)
Recognize ==
    \E p \in Runs :
        LET r == runs[p]
        IN  /\ r.pc = "recognize"
            /\ scratch' = IF r.upload.kind = "huge" /\ p \in DOMAIN scratch.tile
                          THEN RemoveFile("tile", p) ELSE scratch
            /\ Step(p, [r EXCEPT !.pc = "done"])

CacheNext ==
    \/ StartSmall \/ StageOpen \/ StageWritten
    \/ HashFile \/ SkipCache
    \/ CacheHit \/ CacheMiss
    \/ RunPipeline \/ ImreadFails
    \/ StoreOpen \/ StoreFails \/ StoreWritten
    \/ Recognize

CacheSpec == CacheInit /\ [][CacheNext]_vars

-----------------------------------------------------------------------------
(* Properties of split_image (checked under SplitSpec).                    *)

SplitReturned == sp_pc = "done" /\ sp_result.success

SplitPlanned == SplitReturned /\ sp_result.should_split

(* The split axis of a strip result: its tile size, dimension and the      *)
(* tiles' spans along it.                                                   *)
StripTileSize ==
    IF sp_result.split_mode = "vertical"
    THEN sp_config.max_height ELSE sp_config.max_width

StripDimension ==
    IF sp_result.split_mode = "vertical" THEN sp_img[2] ELSE sp_img[1]

StripLo(k) ==
    IF sp_result.split_mode = "vertical"
    THEN sp_result.tiles[k].box[2] ELSE sp_result.tiles[k].box[1]

StripHi(k) ==
    IF sp_result.split_mode = "vertical"
    THEN sp_result.tiles[k].box[4] ELSE sp_result.tiles[k].box[3]

BoxInsideImage(box) ==
    /\ 0 <= box[1] /\ box[1] < box[3] /\ box[3] <= sp_img[1]
    /\ 0 <= box[2] /\ box[2] < box[4] /\ box[4] <= sp_img[2]

IsStripSplit ==
    /\ SplitPlanned
    /\ sp_result.split_mode \in {"vertical", "horizontal"}
    /\ sp_config.overlap < StripTileSize

(* C1: for every strip split (vertical or horizontal) with                 *)
(* 0 <= overlap < tile_size, the tiles' spans along the split axis start   *)
(* at 0, end at the dimension and leave no gap; consecutive tiles overlap   *)
(* by exactly `overlap`, the last pair by at least `overlap`; every box has *)
(* positive extent and lies inside the image.                               *)
C1_StripCoverage ==
    IsStripSplit =>
        LET n == Len(sp_result.tiles)
        IN  /\ n >= 1
            /\ n = sp_result.tile_count
            /\ StripLo(1) = 0
            /\ StripHi(n) = StripDimension
            /\ \A k \in 1..(n - 1) :
                  /\ StripHi(k) - StripLo(k + 1) >= sp_config.overlap
                  /\ (k + 1 < n =>
                        StripHi(k) - StripLo(k + 1) = sp_config.overlap)
            /\ \A k \in 1..n : BoxInsideImage(sp_result.tiles[k].box)

(* A vertical split into at least three strips whose last strip is         *)
(* shorter than the others, with a positive overlap.                       *)
C1_Witness ==
    /\ IsStripSplit
    /\ sp_result.split_mode = "vertical"
    /\ sp_config.overlap >= 1
    /\ Len(sp_result.tiles) >= 3
    /\ sp_result.tiles[Len(sp_result.tiles)].dimensions[2]
          < sp_config.max_height

(* The tiles of a planned split, per axis: tile k's 0-based index along    *)
(* the x axis and along the y axis (-1 when the axis is not split).        *)
IsWellConfiguredSplit ==
    /\ SplitPlanned
    /\ sp_result.split_mode \in {"grid", "horizontal"} =>
          sp_config.overlap < sp_config.max_width
    /\ sp_result.split_mode \in {"grid", "vertical"} =>
          sp_config.overlap < sp_config.max_height

ColOf(k) ==
    IF sp_result.split_mode = "grid"
    THEN sp_result.tiles[k].grid_position[2]
    ELSE IF sp_result.split_mode = "horizontal" THEN k - 1 ELSE 0 - 1

RowOf(k) ==
    IF sp_result.split_mode = "grid"
    THEN sp_result.tiles[k].grid_position[1]
    ELSE IF sp_result.split_mode = "vertical" THEN k - 1 ELSE 0 - 1

XStep == sp_config.max_width - sp_config.overlap
YStep == sp_config.max_height - sp_config.overlap

IsScenario == sp_img = ScenarioImg /\ sp_config = DefaultSplitConfig

(* C2 as stated: tile i starts at max(0, min(i*step, dimension -           *)
(* tile_size)), so with dimension >= tile_size every tile has the full     *)
(* tile_size extent and the last one ends at the image boundary; the       *)
(* 5100x3300 scenario gives 2 horizontal tiles at x-offsets 0 and 2550.    *)
C2_ClampedOffsets ==
    IsWellConfiguredSplit =>
        /\ \A k \in 1..Len(sp_result.tiles) :
              LET t == sp_result.tiles[k]
              IN  /\ ColOf(k) >= 0 =>
                        /\ t.box[1] = Max(0, Min(ColOf(k) * XStep,
                                          sp_img[1] - sp_config.max_width))
                        /\ sp_img[1] >= sp_config.max_width =>
                              t.dimensions[1] = sp_config.max_width
                  /\ RowOf(k) >= 0 =>
                        /\ t.box[2] = Max(0, Min(RowOf(k) * YStep,
                                          sp_img[2] - sp_config.max_height))
                        /\ sp_img[2] >= sp_config.max_height =>
                              t.dimensions[2] = sp_config.max_height
        /\ IsScenario =>
              /\ sp_result.split_mode = "horizontal"
              /\ sp_result.tile_count = 2
              /\ sp_result.tiles[1].box[1] = 0
              /\ sp_result.tiles[2].box[1] = 2550

(* C2 amended: tile i along a split axis starts at i*step and has the      *)
(* extent min(tile_size, dimension - i*step); every tile but the last one  *)
(* on the axis has the full tile_size extent, the last one ends exactly at *)
(* the image boundary with an extent between 1 and tile_size; the         *)
(* 5100x3300 scenario gives 3 horizontal tiles at x-offsets 0, 2450 and    *)
(* 4900, of widths 2550, 2550 and 200.                                     *)
C2_ShrinkingLastTile ==
    IsWellConfiguredSplit =>
        LET n == Len(sp_result.tiles)
            lastCol == ColOf(n)
            lastRow == RowOf(n)
        IN  /\ n >= 1
            /\ \A k \in 1..n :
                  LET t == sp_result.tiles[k]
                  IN  /\ ColOf(k) >= 0 =>
                            /\ t.box[1] = ColOf(k) * XStep
                            /\ ColOf(k) < lastCol =>
                                  t.dimensions[1] = sp_config.max_width
                            /\ ColOf(k) = lastCol =>
                                  /\ t.box[3] = sp_img[1]
                                  /\ t.dimensions[1] <= sp_config.max_width
                                  /\ t.dimensions[1] >= 1
                      /\ RowOf(k) >= 0 =>
                            /\ t.box[2] = RowOf(k) * YStep
                            /\ RowOf(k) < lastRow =>
                                  t.dimensions[2] = sp_config.max_height
                            /\ RowOf(k) = lastRow =>
                                  /\ t.box[4] = sp_img[2]
                                  /\ t.dimensions[2] <= sp_config.max_height
                                  /\ t.dimensions[2] >= 1
            /\ IsScenario =>
                  /\ sp_result.split_mode = "horizontal"
                  /\ sp_result.tile_count = 3
                  /\ sp_result.tiles[1].box = <<0, 0, 2550, 3300>>
                  /\ sp_result.tiles[2].box = <<2450, 0, 5000, 3300>>
                  /\ sp_result.tiles[3].box = <<4900, 0, 5100, 3300>>

(* The 5100x3300 scenario after the call: the third tile is the 200 pixel  *)
(* remainder.                                                              *)
C2_Witness ==
    /\ IsWellConfiguredSplit
    /\ IsScenario
    /\ sp_result.tile_count = 3
    /\ sp_result.tiles[3].dimensions = <<200, 3300>>

(* C3: should_split is true exactly when width > max_width, or             *)
(* height > max_height, or max(w,h)/min(w,h) > aspect_ratio_threshold;     *)
(* otherwise the tile list is empty and tile_count is 0; a split with      *)
(* overlap < tile size succeeds and has at least one tile; needs_chunking  *)
(* takes the same decision for the threshold 5.                            *)
C3_SplitDecision ==
    LET w == sp_img[1]
        h == sp_img[2]
        exceeds == \/ w > sp_config.max_width
                   \/ h > sp_config.max_height
                   \/ Max(w, h) > sp_config.aspect_ratio_threshold * Min(w, h)
    IN  sp_pc = "done" =>
          /\ ~exceeds =>
                /\ sp_result.success
                /\ sp_result.should_split = FALSE
                /\ sp_result.tiles = <<>>
                /\ sp_result.tile_count = 0
          /\ (exceeds /\ sp_result.success) =>
                /\ sp_result.should_split = TRUE
                /\ IsWellConfiguredSplit =>
                      /\ Len(sp_result.tiles) >= 1
                      /\ sp_result.tile_count = Len(sp_result.tiles)
          /\ (exceeds /\ sp_config.overlap
                           < Min(sp_config.max_width, sp_config.max_height)) =>
                sp_result.success
          /\ sp_config.aspect_ratio_threshold = 5 =>
                (exceeds <=> needs_chunking(w, h, sp_config.max_width,
                                            sp_config.max_height))

(* An image exactly at both maxima and within the aspect threshold is not  *)
(* split.                                                                  *)
C3_Witness ==
    /\ SplitReturned
    /\ sp_img = <<sp_config.max_width, sp_config.max_height>>
    /\ sp_result.should_split = FALSE
    /\ sp_result.tile_count = 0

OnlyAspectFires ==
    /\ SplitPlanned
    /\ sp_img[1] <= sp_config.max_width
    /\ sp_img[2] <= sp_config.max_height

(* C4: when only the aspect-ratio threshold triggers the split, the strip  *)
(* orientation follows the larger dimension: vertical when height > width, *)
(* horizontal when width > height.                                         *)
C4_OrientationFromLargerDimension ==
    OnlyAspectFires =>
        /\ sp_img[2] > sp_img[1] => sp_result.split_mode = "vertical"
        /\ sp_img[1] > sp_img[2] => sp_result.split_mode = "horizontal"

-----------------------------------------------------------------------------
(* Properties of process_image (checked under Spec).                       *)

ConfigOne == "pytesseract_config1"
ConfigTwo == "pytesseract_config2"

(* The run took the chunked path and has returned.                         *)
ChunkedDone == pc = "done" /\ chunks # <<>>

(* The run took the single-pass path and has returned a result.            *)
SingleDone == pc = "done" /\ chunks = <<>> /\ result.success

AllBy(boxes, p) == \A k \in 1..Len(boxes) : boxes[k].by = p

ConfidentCount(data) == Cardinality({k \in 1..Len(data) : data[k].conf > 0})

PrimaryTextOf(i) ==
    IF hist[i].failed THEN <<>> ELSE Strip(hist[i].result1.text)

SecondaryTextOf(i) ==
    IF hist[i].failed THEN <<>>
    ELSE IF hist[i].result2 = NotRun THEN Strip(hist[i].result1.text)
    ELSE Strip(hist[i].result2.text)

IsValidIndex(i) == PrimaryTextOf(i) # <<>> \/ SecondaryTextOf(i) # <<>>

WinnerDataOf(i) ==
    IF hist[i].failed THEN <<>>
    ELSE IF chunk_results[i].source = ConfigTwo THEN hist[i].result2.data
    ELSE hist[i].result1.data

GlobalBox(t, chunk) ==
    [text |-> t.text, confidence |-> t.conf,
     x |-> t.left + chunk.x_offset, y |-> t.top + chunk.y_offset,
     width |-> t.width, height |-> t.height, by |-> t.by]

AllTokensOf(i) ==
    [k \in 1..Len(WinnerDataOf(i)) |-> GlobalBox(WinnerDataOf(i)[k], chunks[i])]

ConfidentTokensOf(i) ==
    LET kept == SelectSeq(WinnerDataOf(i), LAMBDA t : t.conf > 0)
    IN  [k \in 1..Len(kept) |-> GlobalBox(kept[k], chunks[i])]

(* C6 as stated: every token box of each valid chunk's winning pass is in  *)
(* the merged list, re-based by the chunk's offsets with width and height  *)
(* unchanged, and the merged list is the concatenation of the valid        *)
(* chunks' boxes in chunk order.                                           *)
C6_EveryTokenRebased ==
    ChunkedDone =>
        result.bounding_boxes =
            Flatten([i \in 1..Len(chunks) |->
                        IF IsValidIndex(i) THEN AllTokensOf(i) ELSE <<>>])

(* C6 amended: every token box with a confidence above 0 of each valid     *)
(* chunk's winning pass is in the merged list, re-based by the chunk's     *)
(* offsets with width and height unchanged; rows with confidence 0 or -1   *)
(* are left out; the merged list is the concatenation of the valid chunks' *)
(* boxes in chunk order.                                                   *)
C6_ConfidentTokensRebased ==
    ChunkedDone =>
        result.bounding_boxes =
            Flatten([i \in 1..Len(chunks) |->
                        IF IsValidIndex(i) THEN ConfidentTokensOf(i) ELSE <<>>])

BoxAt(b, x, y, w, h) == b.x = x /\ b.y = y /\ b.width = w /\ b.height = h

(* Chunks at offsets (0,0) and (2450,0), each with a local box             *)
(* (10,10,50,20): the merged list has (10,10,50,20) and (2460,10,50,20).   *)
C6_Witness ==
    /\ ChunkedDone
    /\ Len(chunks) = 2
    /\ chunks[2].x_offset = 2450 /\ chunks[2].y_offset = 0
    /\ \E k \in 1..Len(result.bounding_boxes) :
          BoxAt(result.bounding_boxes[k], 10, 10, 50, 20)
    /\ \E k \in 1..Len(result.bounding_boxes) :
          BoxAt(result.bounding_boxes[k], 2460, 10, 50, 20)

ValidIndices == {i \in 1..Len(chunk_results) : IsValidIndex(i)}

PrimaryConfSum ==
    SumSeq([i \in 1..Len(chunk_results) |->
              IF IsValidIndex(i) THEN chunk_results[i].pytesseract_conf ELSE 0])

SecondaryConfSum ==
    SumSeq([i \in 1..Len(chunk_results) |->
              IF IsValidIndex(i) THEN chunk_results[i].easyocr_conf ELSE 0])

MergeExcludesEmptyChunks ==
    /\ merged.success
    /\ result.success
    /\ merged.chunk_count = Cardinality(ValidIndices)
    /\ merged.bounding_boxes =
          Flatten([i \in 1..Len(chunk_results) |->
                     IF IsValidIndex(i) THEN chunk_results[i].bounding_boxes
                     ELSE <<>>])
    /\ ValidIndices = {} =>
          /\ merged.pytesseract_confidence = 0
          /\ merged.easyocr_confidence = 0

(* C7 as stated: a chunk whose texts are both empty after trimming adds no *)
(* boxes and is not counted; each merged confidence is the arithmetic mean *)
(* of that side's confidence over the valid chunks (0 without a valid      *)
(* chunk); chunk_count is the number of valid chunks; no error.            *)
C7_ExactMean ==
    ChunkedDone =>
        LET n == Cardinality(ValidIndices)
        IN  /\ MergeExcludesEmptyChunks
            /\ n > 0 =>
                  /\ merged.pytesseract_confidence * n = PrimaryConfSum
                  /\ merged.easyocr_confidence * n = SecondaryConfSum

(* C7 amended: as stated, except that each merged confidence is the        *)
(* arithmetic mean rounded down to an integer (integer division).          *)
C7_FloorMean ==
    ChunkedDone =>
        LET n == Cardinality(ValidIndices)
            a1 == merged.pytesseract_confidence
            a2 == merged.easyocr_confidence
        IN  /\ MergeExcludesEmptyChunks
            /\ n > 0 =>
                  /\ a1 * n <= PrimaryConfSum /\ PrimaryConfSum < (a1 + 1) * n
                  /\ a2 * n <= SecondaryConfSum /\ SecondaryConfSum < (a2 + 1) * n

(* A run with an excluded chunk that had boxes and a confidence, and two   *)
(* valid chunks whose confidences do not sum to an even number.            *)
C7_Witness ==
    /\ ChunkedDone
    /\ Cardinality(ValidIndices) = 2
    /\ PrimaryConfSum % 2 = 1
    /\ \E i \in 1..Len(chunk_results) :
          /\ ~IsValidIndex(i)
          /\ ~hist[i].failed
          /\ chunk_results[i].bounding_boxes # <<>>
          /\ chunk_results[i].pytesseract_conf > 0

IsEmptyContribution(r) ==
    /\ r.pytesseract_text = <<>> /\ r.easyocr_text = <<>>
    /\ r.pytesseract_conf = 0 /\ r.easyocr_conf = 0 /\ r.consensus_conf = 0
    /\ r.bounding_boxes = <<>>

NonEmptyTexts(texts) == SelectSeq(texts, LAMBDA t : t # <<>>)

(* C8: an exception while saving, preprocessing or recognizing a tile      *)
(* makes that tile contribute an empty result and never aborts the         *)
(* document: process_image returns success = true, and the merged texts    *)
(* and boxes are those of all the other tiles.                             *)
C8_FailureIsolation ==
    /\ (pc = "chunk_finally" /\ raised) => IsEmptyContribution(ret)
    /\ \A i \in 1..Len(hist) :
          hist[i].failed => IsEmptyContribution(chunk_results[i])
    /\ (chunks # <<>> /\ raised) => pc = "chunk_finally"
    /\ ChunkedDone =>
          /\ result.success = TRUE
          /\ Len(chunk_results) = Len(chunks)
          /\ result.pytesseract_text =
                JoinLines(NonEmptyTexts([i \in 1..Len(chunks) |-> PrimaryTextOf(i)]))
          /\ result.easyocr_text =
                JoinLines(NonEmptyTexts([i \in 1..Len(chunks) |-> SecondaryTextOf(i)]))
          /\ result.bounding_boxes =
                Flatten([i \in 1..Len(chunks) |->
                           IF IsValidIndex(i) THEN ConfidentTokensOf(i) ELSE <<>>])

(* A finished chunked run in which one tile failed and another one         *)
(* contributed text and boxes.                                             *)
C8_Witness ==
    /\ ChunkedDone
    /\ result.success
    /\ \E i \in 1..Len(hist) : hist[i].failed
    /\ result.pytesseract_text # <<>>
    /\ result.bounding_boxes # <<>>

ReturnedChunks == 1..Len(chunk_results)

RowMajor ==
    \A i, j \in 1..Len(chunks) :
        i < j =>
           \/ chunks[i].y_offset < chunks[j].y_offset
           \/ /\ chunks[i].y_offset = chunks[j].y_offset
              /\ chunks[i].x_offset < chunks[j].x_offset

(* Chunks are processed one at a time, in the order of the chunk list.     *)
OneAtATime ==
    /\ pc \in {"chunk_save", "chunk_pre", "chunk_rec", "chunk_wait",
               "chunk_finally"} =>
          /\ ci \in 1..Len(chunks)
          /\ Len(chunk_results) = ci - 1
    /\ pc \in {"merge", "done"} /\ chunks # <<>> =>
          Len(chunk_results) = Len(chunks)

ValidChunkTexts(TextOf(_)) ==
    LET idx == SelectSeq([i \in 1..Len(chunks) |-> i], IsValidIndex)
    IN  [k \in 1..Len(idx) |-> TextOf(idx[k])]

(* C10 as stated: the merged primary text is the trimmed primary texts of  *)
(* the valid chunks joined with a line break in chunk-processing order     *)
(* (row-major), the secondary text likewise; chunks are processed one at a *)
(* time in that order.                                                     *)
C10_JoinValidTexts ==
    /\ RowMajor
    /\ OneAtATime
    /\ ChunkedDone =>
          /\ result.pytesseract_text = JoinLines(ValidChunkTexts(PrimaryTextOf))
          /\ result.easyocr_text = JoinLines(ValidChunkTexts(SecondaryTextOf))

(* C10 amended: the merged primary text is the non-empty trimmed primary   *)
(* texts of the valid chunks joined with a line break in chunk-processing  *)
(* order (row-major), a valid chunk whose primary text is empty adding     *)
(* nothing; the secondary text likewise; chunks are processed one at a     *)
(* time in that order.                                                     *)
C10_JoinNonEmptyTexts ==
    /\ RowMajor
    /\ OneAtATime
    /\ ChunkedDone =>
          /\ result.pytesseract_text =
                JoinLines(NonEmptyTexts(ValidChunkTexts(PrimaryTextOf)))
          /\ result.easyocr_text =
                JoinLines(NonEmptyTexts(ValidChunkTexts(SecondaryTextOf)))

(* A 2x2 grid whose four chunks read a, b, b, a with the first pass.       *)
C10_Witness ==
    /\ ChunkedDone
    /\ Len(chunks) = 4
    /\ chunks[2].y_offset = 0 /\ chunks[2].x_offset > 0
    /\ chunks[3].y_offset > 0 /\ chunks[3].x_offset = 0
    /\ result.pytesseract_text = <<"a", NL, "b", NL, "b", NL, "a">>

SamePsm == cfg.psm1 = cfg.psm2

BothPassesDone(r1, r2) == r1.state = "done" /\ r2.state = "done"

SidesIdentical(text1, conf1, text2, conf2) == text1 = text2 /\ conf1 = conf2

(* C11: when psm1 = psm2 exactly one recognition pass is executed per tile *)
(* and per single-pass document, no second pass is issued and the          *)
(* result's primary and secondary text and confidence are identical; when  *)
(* psm1 # psm2 exactly two passes are executed and both have completed     *)
(* before consensus is computed.  A tile or document whose processing      *)
(* raised before recognition has executed none.                            *)
C11_PassCount ==
    pc # "start" =>
      /\ SamePsm =>
            /\ passes <= 1
            /\ result2 = NotRun
            /\ \A i \in 1..Len(hist) :
                  /\ hist[i].passes <= 1
                  /\ hist[i].result2 = NotRun
                  /\ ~hist[i].failed =>
                        /\ hist[i].passes = 1
                        /\ SidesIdentical(chunk_results[i].pytesseract_text,
                                          chunk_results[i].pytesseract_conf,
                                          chunk_results[i].easyocr_text,
                                          chunk_results[i].easyocr_conf)
            /\ (pc = "chunk_finally" /\ ~raised) =>
                  /\ passes = 1
                  /\ SidesIdentical(ret.pytesseract_text, ret.pytesseract_conf,
                                    ret.easyocr_text, ret.easyocr_conf)
            /\ (pc = "done" /\ result.success) =>
                  SidesIdentical(result.pytesseract_text,
                                 result.pytesseract_confidence,
                                 result.easyocr_text,
                                 result.easyocr_confidence)
            /\ SingleDone => passes = 1
      /\ ~SamePsm =>
            /\ passes \in {0, 2}
            /\ \A i \in 1..Len(hist) :
                  /\ hist[i].passes \in {0, 2}
                  /\ ~hist[i].failed =>
                        /\ hist[i].passes = 2
                        /\ BothPassesDone(hist[i].result1, hist[i].result2)
            /\ (pc = "chunk_finally" /\ ~raised) =>
                  /\ passes = 2
                  /\ BothPassesDone(result1, result2)
            /\ SingleDone =>
                  /\ passes = 2
                  /\ BothPassesDone(result1, result2)

(* A chunked run under the fast preset that read text in every one of its  *)
(* tiles with one pass each.                                               *)
C11_Witness ==
    /\ ChunkedDone
    /\ SamePsm
    /\ Len(hist) >= 2
    /\ \A i \in 1..Len(hist) : hist[i].passes = 1 /\ ~hist[i].failed
    /\ result.pytesseract_text # <<>>
    /\ result.easyocr_text = result.pytesseract_text

ChunkBox(chunk) ==
    <<chunk.x_offset, chunk.y_offset,
      chunk.x_offset + chunk.width, chunk.y_offset + chunk.height>>

PlannerCount(dimension, tile_size, step) ==
    1 + CeilDiv(Max(0, dimension - tile_size), step)

(* C16: for every image size that needs chunking, create_image_chunks with *)
(* chunk 2550x3300 and overlap 100 makes 1 + ceil(max(0, dimension -       *)
(* tile_size) / step) chunks along each axis, and its rectangles equal the *)
(* tile boxes split_image plans for the same image with its default        *)
(* configuration.                                                          *)
C16_ChunksFollowPlanner ==
    (/\ sp_pc = "done"
     /\ sp_config = DefaultSplitConfig
     /\ needs_chunking(sp_img[1], sp_img[2], 2550, 3300)) =>
        LET cs == create_image_chunks(sp_img[1], sp_img[2], 2550, 3300, 100)
            columns == {cs[k].x_offset : k \in 1..Len(cs)}
            rows == {cs[k].y_offset : k \in 1..Len(cs)}
        IN  /\ Cardinality(columns) = PlannerCount(sp_img[1], 2550, 2450)
            /\ Cardinality(rows) = PlannerCount(sp_img[2], 3300, 3200)
            /\ sp_result.success
            /\ Len(cs) = Len(sp_result.tiles)
            /\ \A k \in 1..Len(cs) : ChunkBox(cs[k]) = sp_result.tiles[k].box

(* The preset in effect: the caller's when supplied, else the default.    *)
ActivePreset ==
    IF "performancePreset" \in DOMAIN config
    THEN config.performancePreset
    ELSE "balanced"

(* The fields a preset sets (lines 256-274).                               *)
PresetFields(preset) ==
    IF preset = "fast" THEN {"upscale", "denoise", "deskew", "psm2"}
    ELSE IF preset \in {"balanced", "accurate"}
    THEN {"upscale", "denoise", "deskew"}
    ELSE {}

(* C14: the effective configuration is defaults, then preset overlay, then *)
(* explicit overrides: a value the caller supplies for a field the active  *)
(* preset also sets is the value in effect during processing.              *)
C14_ExplicitOverridesWin ==
    pc # "start" =>
        \A k \in PresetFields(ActivePreset) \cap DOMAIN config :
            cfg[k] = config[k]

SinglePassSteps == {"resize", "pre", "rec", "wait"}

ChunkedPassSteps ==
    {"chunk_save", "chunk_pre", "chunk_rec", "chunk_wait", "chunk_finally",
     "merge"}

Phase(step) ==
    IF step = "start" THEN "Start"
    ELSE IF step = "dimcheck" THEN "DimensionCheck"
    ELSE IF step \in SinglePassSteps THEN "SinglePass"
    ELSE IF step \in ChunkedPassSteps THEN "ChunkedPass"
    ELSE "Done"

(* Start -> DimensionCheck -> {SinglePass | ChunkedPass} -> Done; a run    *)
(* that cannot open the image goes from Start to Done with a failure.      *)
PhaseOrder ==
    {<<"Start", "DimensionCheck">>, <<"DimensionCheck", "SinglePass">>,
     <<"DimensionCheck", "ChunkedPass">>, <<"SinglePass", "SinglePass">>,
     <<"ChunkedPass", "ChunkedPass">>, <<"SinglePass", "Done">>,
     <<"ChunkedPass", "Done">>}

PhaseStep ==
    \/ <<Phase(pc), Phase(pc')>> \in PhaseOrder
    \/ pc = "start" /\ pc' = "done" /\ ~result'.success

(* The dimension check of line 533 on the image's size.                    *)
DimensionCheckSays == needs_chunking(img[1], img[2], 2550, 3300)

(* C13 as stated: every run goes Start -> DimensionCheck -> exactly one of *)
(* SinglePass or ChunkedPass -> Done, the branch fixed by the dimension    *)
(* check alone: when chunking is needed the run never enters the           *)
(* single-pass steps, when it is not needed no tile is ever created.       *)
C13_BranchFixedByDimensionCheck ==
    [][/\ PhaseStep
       /\ DimensionCheckSays => pc' \notin SinglePassSteps
       /\ ~DimensionCheckSays =>
             (pc' \notin ChunkedPassSteps /\ chunks' = <<>>)]_vars

(* C13 amended: as stated, except that a run whose image needs chunking    *)
(* enters the single-pass steps when create_image_chunks fails and returns *)
(* no chunk (the fallback of lines 538-540); a run that has chunks never   *)
(* enters them.                                                            *)
C13_BranchFixedUnlessChunkingFails ==
    [][/\ PhaseStep
       /\ (DimensionCheckSays /\ pc = "dimcheck" /\ pc' \in SinglePassSteps) =>
             (faults' = faults + 1 /\ chunks' = <<>>)
       /\ (DimensionCheckSays /\ pc' \in SinglePassSteps) =>
             (chunks' = <<>> /\ chunk_results' = <<>>)
       /\ chunks' # <<>> => pc' \notin SinglePassSteps
       /\ ~DimensionCheckSays =>
             (pc' \notin ChunkedPassSteps /\ chunks' = <<>>)]_vars

(* A run on an image that needs chunking, whose create_image_chunks        *)
(* failed, and which returned the result of the single-pass steps.         *)
C13_Witness ==
    /\ DimensionCheckSays
    /\ pc = "done"
    /\ chunks = <<>>
    /\ chunk_results = <<>>
    /\ result.success
    /\ passes > 0

BoxInsideTile(b, chunk) ==
    /\ chunk.x_offset <= b.x
    /\ b.x + b.width <= chunk.x_offset + chunk.width
    /\ chunk.y_offset <= b.y
    /\ b.y + b.height <= chunk.y_offset + chunk.height

(* C17: the recognizer reporting only boxes inside the surface it is       *)
(* given, every bounding box of a chunked result lies inside its tile's    *)
(* rectangle in source-image coordinates, and hence inside the image, for  *)
(* every combination of the preprocessing flags, upscale included.         *)
C17_BoxesInsideTile ==
    /\ \A i \in 1..Len(chunk_results) :
          \A k \in 1..Len(chunk_results[i].bounding_boxes) :
              BoxInsideTile(chunk_results[i].bounding_boxes[k], chunks[i])
    /\ ChunkedDone =>
          \A k \in 1..Len(result.bounding_boxes) :
              /\ result.bounding_boxes[k].x + result.bounding_boxes[k].width
                    <= img[1]
              /\ result.bounding_boxes[k].y + result.bounding_boxes[k].height
                    <= img[2]

(* C18: in a chunked result every bounding box comes from the recognition  *)
(* pass named by the document's consensus_source.                          *)
C18_BoxesFromConsensusSource ==
    ChunkedDone =>
        /\ result.consensus_source = "chunked_processing_pytesseract_config1"
              => AllBy(result.bounding_boxes, 1)
        /\ result.consensus_source = "chunked_processing_pytesseract_config2"
              => AllBy(result.bounding_boxes, 2)

-----------------------------------------------------------------------------
(* Properties of the preprocessing cache and the scratch directory         *)
(* (checked under CacheSpec).                                              *)

Returned(p) == runs[p].pc \in {"recognize", "done"}

SameCall(p, q) ==
    /\ runs[p].upload = runs[q].upload
    /\ runs[p].flags = runs[q].flags

(* q made its call after p had returned, both with the cache enabled.      *)
SecondCall(p, q) ==
    /\ p # q
    /\ runs[q].alone
    /\ Returned(q)
    /\ runs[p].enable_cache
    /\ runs[q].enable_cache

(* C12: with caching enabled, a second preprocess_image call on the same   *)
(* image bytes with the same upscale/denoise/deskew flags returns a        *)
(* surface identical to the first call's and, when the first call stored   *)
(* its entry, is served from the cache without running the pipeline; calls *)
(* that differ in the bytes or in one of the three flags never share a     *)
(* cache entry: the second is not served the first's entry.                *)
C12_CacheIdempotent ==
    \A p, q \in Runs :
        SecondCall(p, q) =>
            /\ SameCall(p, q) =>
                  /\ runs[q].surface = runs[p].surface
                  /\ runs[q].surface.intact
                  /\ runs[p].stored => (runs[q].hit /\ ~runs[q].ran)
                  /\ ~runs[p].stored => (~runs[q].hit /\ runs[q].ran)
            /\ ~SameCall(p, q) =>
                  /\ ~runs[q].hit
                  /\ runs[q].surface = Pipeline(StagedFile(runs[q].upload),
                                                runs[q].flags)
                  /\ runs[p].stored =>
                        /\ CachePathOf(p) \in DOMAIN scratch.cache
                        /\ runs[q].pc = "done" => CachePathOf(q) # CachePathOf(p)

(* The second call on a resized image with upscale on is served the entry  *)
(* the first call stored.                                                  *)
C12_Witness ==
    \E p, q \in Runs :
        /\ SecondCall(p, q)
        /\ SameCall(p, q)
        /\ runs[q].pc = "done"
        /\ runs[q].upload.kind = "large"
        /\ runs[q].flags.upscale
        /\ runs[p].stored
        /\ runs[q].hit
        /\ ~runs[q].ran
        /\ runs[q].surface = Pipeline(StagedFile(runs[q].upload), runs[q].flags)

(* C15: under every interleaving of two runs' file checks, writes and      *)
(* reads, each run recognizes a surface derived only from its own input    *)
(* bytes and flags, a cache reader never observes a partially written or   *)
(* foreign entry, and every stored entry is the one its key names.         *)
C15_RacesBenign ==
    /\ \A p \in Runs :
          Returned(p) =>
             /\ runs[p].surface \in
                   {Pipeline(StagedFile(runs[p].upload), runs[p].flags),
                    Passthrough(StagedFile(runs[p].upload))}
             /\ runs[p].hit =>
                   runs[p].surface = Pipeline(StagedFile(runs[p].upload),
                                              runs[p].flags)
    /\ \A k \in DOMAIN scratch.cache :
          scratch.cache[k].whole =>
             /\ k[1] = get_image_hash(scratch.cache[k].pixels.of)
             /\ k[2] = PreprocessingConfig(scratch.cache[k].pixels)

=============================================================================
